---- MODULE Spec2Model ----
(***************************************************************************)
(* Model of the composite trigger dispatcher (src/main.rs): the argument   *)
(* router (args_for_trigger, gruppified_args), the manifest partitioner    *)
(* (locked_app_for_trigger and its helpers), the manifest writer           *)
(* (write_locked_app) and the supervisor (CompositeApp::run) with its      *)
(* ctrl-c task, its per-type launch tasks and the child processes.         *)
(*                                                                         *)
(* Strings are sequences of one-character strings, so that prefix tests    *)
(* and str::replace are computed character by character.                   *)
(***************************************************************************)
EXTENDS Integers, Sequences, FiniteSets, TLC

VARIABLES
    app,        \* the LockedApp returned by load_app (main.rs:38)
    rawArgs,    \* self.args (main.rs:13)
    pc,         \* position of run: start, loop, select, ok, err, panic
    pending,    \* trigger types the for loop has not visited yet (main.rs:48)
    grupps,     \* the grouping last computed by gruppified_args
    args,       \* per type, the result of args_for_trigger
    subapp,     \* per type, the result of locked_app_for_trigger
    files,      \* per type, the content of working_dir/spin.<type>.lock
    task,       \* per type, the launch task held by the JoinSet (main.rs:57)
    child,      \* per type, the child process the task launched
    ctrlc,      \* the ctrl-c listener task (main.rs:24)
    endedBy,    \* the select branch that ended the wait (main.rs:68)
    writeFailed,\* types whose write_locked_app returned Err
    atEnd       \* children that were running when the wait ended

vars == <<app, rawArgs, pc, pending, grupps, args, subapp, files, task, child,
          ctrlc, endedBy, writeFailed, atEnd>>

-----------------------------------------------------------------------------
(* Bounds of the input spaces.                                             *)

MaxArgs == 3
MaxTriggers == 2

-----------------------------------------------------------------------------
(* Strings.                                                                *)

Hy == "-"
\* a byte that is not valid UTF-8, and U+FFFD, which to_string_lossy puts
\* in its place
BadByte == "#"
ReplChar == "?"

starts_with(s, p) ==
    /\ Len(s) >= Len(p)
    /\ SubSeq(s, 1, Len(p)) = p

\* OsStr::to_string_lossy
to_string_lossy(s) ==
    [i \in 1..Len(s) |-> IF s[i] = BadByte THEN ReplChar ELSE s[i]]

\* str::replace: every non-overlapping match of `from`, left to right
RECURSIVE replace(_, _, _)
replace(s, from, to) ==
    IF Len(s) = 0 THEN <<>>
    ELSE IF starts_with(s, from)
         THEN to \o replace(SubSeq(s, Len(from) + 1, Len(s)), from, to)
         ELSE <<s[1]>> \o replace(Tail(s), from, to)

\* arg.to_string_lossy().starts_with('-')
starts_hyphen(arg) == starts_with(to_string_lossy(arg), <<Hy>>)

RECURSIVE Flatten(_)
Flatten(ss) == IF Len(ss) = 0 THEN <<>> ELSE Head(ss) \o Flatten(Tail(ss))

-----------------------------------------------------------------------------
(* Trigger types and tokens of the model.                                  *)

tHttp == <<"h", "t", "t", "p">>
tRedis == <<"r", "e", "d", "i", "s">>
tA == <<"a">>
tAB == <<"a", "-", "b">>
tAx == <<"a", "x">>

TypePool == {tHttp, tRedis, tA, tAB, tAx}

kAX == <<"-", "-", "a", "-", "x">>
kABX == <<"-", "-", "a", "-", "b", "-", "x">>
kAXAY == <<"-", "-", "a", "-", "x", "-", "-", "a", "-", "y">>
kABad == <<"-", "-", "a", "-", "#">>
kAx == <<"-", "-", "a", "x">>
kQ == <<"-", "-", "q">>
kNeg == <<"-", "1">>
kV == <<"v">>
kVA == <<"v", "-", "-", "a", "-", "y">>
kHttpBase == <<"-", "-", "h", "t", "t", "p", "-", "b", "a", "s", "e">>
kApi == <<"/", "a", "p", "i">>
kRedisAddr == <<"-", "-", "r", "e", "d", "i", "s", "-", "a", "d", "d", "r">>
kY == <<"y">>
kOther == <<"-", "-", "o", "t", "h", "e", "r">>
kEmpty == <<>>
kAxY == <<"-", "-", "a", "x", "-", "y">>

TokenPool == {kAX, kABX, kAXAY, kABad, kAx, kAxY, kQ, kNeg, kV, kVA, kEmpty}

SeqsUpTo(S, n) == UNION {[1..k -> S] : k \in 0..n}

-----------------------------------------------------------------------------
(* Argument router, main.rs:80-114.                                        *)

\* what the mutated grouping tests instead of a single leading hyphen
gruppified_args_long_only(as) ==
    LET RECURSIVE loop(_, _)
        loop(rest, acc) ==
            IF Len(rest) = 0 THEN [panic |-> FALSE, val |-> acc]
            ELSE LET arg == Head(rest)
                     g1 == IF starts_with(to_string_lossy(arg), <<Hy, Hy>>)
                           THEN Append(acc, <<>>) ELSE acc
                 IN IF Len(g1) = 0
                    THEN [panic |-> TRUE, val |-> <<>>]
                    ELSE loop(Tail(rest),
                              [g1 EXCEPT ![Len(g1)] = Append(@, arg)])
    IN loop(as, <<>>)

\* gruppified_args: a hyphen-leading token pushes a new grupp, every token is
\* pushed on the last grupp; last_mut().unwrap() panics when there is none
gruppified_args(as) ==
    LET RECURSIVE loop(_, _)
        loop(rest, acc) ==
            IF Len(rest) = 0 THEN [panic |-> FALSE, val |-> acc]
            ELSE LET arg == Head(rest)
                     g1 == IF starts_hyphen(arg) THEN Append(acc, <<>>) ELSE acc
                 IN IF Len(g1) = 0
                    THEN [panic |-> TRUE, val |-> <<>>]
                    ELSE loop(Tail(rest),
                              [g1 EXCEPT ![Len(g1)] = Append(@, arg)])
    IN loop(as, <<>>)

tt_prefix_no_dash(T) == <<Hy, Hy>> \o T

\* format!("--{trigger_type}-")
tt_prefix(T) == <<Hy, Hy>> \o T \o <<Hy>>

\* args_for_trigger
args_for_trigger(as, T) ==
    LET gs == gruppified_args(as)
        RECURSIVE loop(_, _)
        loop(rest, acc) ==
            IF Len(rest) = 0 THEN acc
            ELSE LET grupp == Head(rest)
                     opt_text == to_string_lossy(grupp[1])
                 IN IF starts_with(opt_text, tt_prefix(T))
                    THEN loop(Tail(rest),
                              acc \o [grupp EXCEPT
                                  ![1] = replace(opt_text, tt_prefix(T), <<Hy, Hy>>)])
                    ELSE loop(Tail(rest), acc)
    IN IF gs.panic
       THEN [st |-> "panic", val |-> <<>>]
       ELSE [st |-> "ok", val |-> loop(gs.val, <<>>)]

\* the grupps that pass the starts_with test of args_for_trigger (86-88),
\* by their position in the grouping
selected_grupps(as, T) ==
    LET gs == gruppified_args(as)
    IN {g \in 1..Len(gs.val) :
           starts_with(to_string_lossy(gs.val[g][1]), tt_prefix(T))}

NotCalled == [st |-> "none", val |-> <<>>]
NoGrupps == [panic |-> FALSE, val |-> <<>>]

-----------------------------------------------------------------------------
(* JSON values (serde_json::Value), as far as the dispatcher looks at      *)
(* them: a string, a number, or an object given as its entries in the      *)
(* order the map iterates them.                                            *)

Str(s) == [kind |-> "str", v |-> s, entries |-> <<>>]
Num == [kind |-> "num", v |-> <<"7">>, entries |-> <<>>]
Obj(es) == [kind |-> "obj", v |-> <<>>, entries |-> es]

\* Value::get(key) followed by as_str(), on a map given as a function
has_str(m, key) == key \in DOMAIN m /\ m[key].kind = "str"

\* serde_json::Map::insert on a sequence of entries
map_insert(es, k, v) ==
    IF \E i \in 1..Len(es) : es[i].k = k
    THEN [i \in 1..Len(es) |-> IF es[i].k = k THEN [k |-> k, v |-> v] ELSE es[i]]
    ELSE Append(es, [k |-> k, v |-> v])

RECURSIVE SelectSeqBy(_, _)
\* the subsequence of s at the positions in keep
SelectSeqBy(s, keep) ==
    IF Len(s) = 0 THEN <<>>
    ELSE LET front == SelectSeqBy(SubSeq(s, 1, Len(s) - 1), keep)
         IN IF Len(s) \in keep THEN Append(front, s[Len(s)]) ELSE front

-----------------------------------------------------------------------------
(* Manifest partitioner, main.rs:117-165.                                  *)

EmptyApp == [triggers |-> <<>>, components |-> <<>>,
             metadata |-> [k \in {} |-> Num]]

uncompositify_keep_type(t) ==
    [t EXCEPT !.trigger_type = t.trigger_config["type"].v]

\* uncompositify: promote trigger_config.type to trigger_type, remove the key
uncompositify(t) ==
    [t EXCEPT !.trigger_type = t.trigger_config["type"].v,
              !.trigger_config =
                  [k \in DOMAIN t.trigger_config \ {"type"} |-> t.trigger_config[k]]]

\* trigger_component_id: get("component").and_then(as_str).unwrap()
trigger_component_id(t) ==
    IF has_str(t.trigger_config, "component")
    THEN [panic |-> FALSE, v |-> t.trigger_config["component"].v]
    ELSE [panic |-> TRUE, v |-> <<>>]

is_id_present_always(triggers, id) == "yes"

\* is_id_present: any() stops at the first trigger that matches, and panics
\* at a trigger without a string component met before that
RECURSIVE is_id_present(_, _)
is_id_present(triggers, id) ==
    IF Len(triggers) = 0 THEN "no"
    ELSE LET c == trigger_component_id(Head(triggers))
         IN IF c.panic THEN "panic"
            ELSE IF c.v = id THEN "yes"
            ELSE is_id_present(Tail(triggers), id)

\* the rebuilt metadata.trigger object, main.rs:138-145
demux_trigger_metadata(o, T) ==
    LET pre == T \o <<Hy>>
        RECURSIVE loop(_, _)
        loop(rest, o2) ==
            IF Len(rest) = 0 THEN o2
            ELSE LET e == Head(rest)
                 IN IF starts_with(e.k, pre)
                    THEN loop(Tail(rest), map_insert(o2, replace(e.k, pre, <<>>), e.v))
                    ELSE loop(Tail(rest), o2)
    IN map_insert(loop(o, <<>>), <<"t", "y", "p", "e">>, Str(T))

insert_trigger_metadata_only(md, o2) == [k \in {"trigger"} |-> Obj(o2)]

\* subset.metadata.insert("trigger", Object(o2)), main.rs:146: the other
\* entries of the cloned metadata stay
insert_trigger_metadata(md, o2) == [md EXCEPT !["trigger"] = Obj(o2)]

\* locked_app_for_trigger
locked_app_for_trigger(a, T) ==
    LET kept == {i \in 1..Len(a.triggers) :
                    /\ has_str(a.triggers[i].trigger_config, "type")
                    /\ a.triggers[i].trigger_config["type"].v = T}
        filtered == SelectSeqBy(a.triggers, kept)
        trigs == [i \in 1..Len(filtered) |-> uncompositify(filtered[i])]
        present == [i \in 1..Len(a.components) |->
                        is_id_present(trigs, a.components[i].id)]
        comps == SelectSeqBy(a.components,
                             {i \in 1..Len(a.components) : present[i] = "yes"})
    IN IF \E i \in 1..Len(a.components) : present[i] = "panic"
       THEN [st |-> "panic", val |-> EmptyApp]
       ELSE IF "trigger" \notin DOMAIN a.metadata
       THEN [st |-> "panic", val |-> EmptyApp]
       ELSE IF a.metadata["trigger"].kind # "obj"
       THEN [st |-> "panic", val |-> EmptyApp]
       ELSE [st |-> "ok",
             val |-> [triggers |-> trigs,
                      components |-> comps,
                      metadata |-> insert_trigger_metadata(a.metadata,
                          demux_trigger_metadata(a.metadata["trigger"].entries, T))]]

NoSubapp == [st |-> "none", val |-> EmptyApp]

\* the set of distinct trigger types, main.rs:40-44
trigger_types(a) ==
    {a.triggers[i].trigger_config["type"].v :
        i \in {j \in 1..Len(a.triggers) :
                  has_str(a.triggers[j].trigger_config, "type")}}

-----------------------------------------------------------------------------
(* Manifest writer and executor resolution, main.rs:52-56 and 168-184.     *)

locked_path_shared(T) == <<"s", "p", "i", "n", ".", "l", "o", "c", "k">>

\* working_dir.join(format!("spin.{trigger_type}.lock"))
locked_path(T) == <<"s", "p", "i", "n", ".">> \o T \o <<".", "l", "o", "c", "k">>

\* Url::from_file_path(&locked_path).to_string()
locked_url(T) == <<"f", "i", "l", "e", ":", "/", "/", "/">> \o locked_path(T)

trigger_subcommand_dynamic(T) == << <<"t", "r", "i", "g", "g", "e", "r", "-">> \o T >>

\* the subcommand tokens of `spin`
trigger_subcommand(T) ==
    IF T = tHttp \/ T = tRedis
    THEN << <<"t", "r", "i", "g", "g", "e", "r">>, T >>
    ELSE << <<"t", "r", "i", "g", "g", "e", "r", "-">> \o T >>

Paths == {locked_path(T) : T \in TypePool}

NoFile == [st |-> "none", val |-> EmptyApp]
NoTask == [st |-> "none", sub |-> <<>>, args |-> <<>>, env |-> <<>>]
NoChild == [st |-> "none", status |-> 0, cmd |-> <<>>, args |-> <<>>,
            env |-> <<>>, launches |-> 0, killed |-> FALSE]

\* Command::new("spin") is built without kill_on_drop(true), main.rs:58-62:
\* dropping the Child handle of an aborted task sends the process nothing
kill_on_drop == FALSE

-----------------------------------------------------------------------------
(* Inputs.                                                                 *)

Absent == [kind |-> "none", v |-> <<>>, entries |-> <<>>]
c1 == <<"c", "1">>
c2 == <<"c", "2">>

MkCfg(ty, co) ==
    LET d == (IF ty.kind = "none" THEN {} ELSE {"type"})
             \cup (IF co.kind = "none" THEN {} ELSE {"component"})
             \cup {"route"}
    IN [k \in d |-> IF k = "type" THEN ty
                    ELSE IF k = "component" THEN co
                    ELSE Str(<<"/">>)]

MkTriggers(ts) ==
    [i \in 1..Len(ts) |->
        [id |-> i, trigger_type |-> <<>>, trigger_config |-> MkCfg(ts[i][1], ts[i][2])]]

MkComponents(ids) == [i \in 1..Len(ids) |-> [id |-> ids[i], source |-> ids[i] \o <<".", "w">>]]

MkMeta(tr) ==
    LET d == {"name"} \cup (IF tr.kind = "none" THEN {} ELSE {"trigger"})
    IN [k \in d |-> IF k = "name" THEN Str(<<"n">>) ELSE tr]

MkApp(ts, ids, tr) ==
    [triggers |-> MkTriggers(ts), components |-> MkComponents(ids),
     metadata |-> MkMeta(tr)]

E(k, v) == [k |-> k, v |-> Str(v)]
mE2E == Obj(<< E(<<"h", "t", "t", "p", "-", "b", "a", "s", "e">>, <<"/">>),
               E(<<"r", "e", "d", "i", "s", "-", "a", "d", "d", "r">>, <<"x">>) >>)
mA == Obj(<< E(<<"a", "-", "x">>, <<"1">>), E(<<"a", "-", "b", "-", "y">>, <<"2">>) >>)

\* component lists with unique ids
CompLists == {<<>>, <<c1>>, <<c2>>, <<c1, c2>>, <<c2, c1>>}

-----------------------------------------------------------------------------
(* The supervisor, CompositeApp::run, main.rs:23-78.                       *)

InitWith(a, as) ==
    /\ app = a
    /\ rawArgs = as
    /\ pc = "start"
    /\ pending = {}
    /\ grupps = NoGrupps
    /\ args = [T \in TypePool |-> NotCalled]
    /\ subapp = [T \in TypePool |-> NoSubapp]
    /\ files = [p \in Paths |-> NoFile]
    /\ task = [T \in TypePool |-> NoTask]
    /\ child = [T \in TypePool |-> NoChild]
    /\ ctrlc = "waiting"
    /\ endedBy = "none"
    /\ writeFailed = {}
    /\ atEnd = {}

Final == pc \in {"ok", "err", "panic"}

\* JoinSet::abort_all, and the JoinSet dropped when run leaves early: every
\* unfinished task is cancelled; a task that never ran launches nothing, a
\* task waiting on its child drops the Child handle
Aborted(tk) ==
    [T \in TypePool |->
        IF tk[T].st \in {"spawned", "waiting"}
        THEN [tk[T] EXCEPT !.st = "aborted"] ELSE tk[T]]

Dropped(tk, ch) ==
    [T \in TypePool |->
        IF tk[T].st = "waiting" /\ ch[T].st = "running"
        THEN [ch[T] EXCEPT !.killed = kill_on_drop] ELSE ch[T]]

Running == {T \in TypePool : child[T].st = "running"}

\* SPIN_LOCKED_URL or SPIN_WORKING_DIR unset, or load_app fails (35-38)
LoadFail ==
    /\ pc = "start"
    /\ pc' = "err"
    /\ UNCHANGED <<app, rawArgs, pending, grupps, args, subapp, files, task,
                   child, ctrlc, endedBy, writeFailed, atEnd>>

\* the descriptor is loaded and the trigger types collected (38-46)
LoadOk ==
    /\ pc = "start"
    /\ pc' = "loop"
    /\ pending' = trigger_types(app)
    /\ UNCHANGED <<app, rawArgs, grupps, args, subapp, files, task, child,
                   ctrlc, endedBy, writeFailed, atEnd>>

\* one iteration of the for loop in which locked_app_for_trigger or
\* args_for_trigger panics (49-50): run unwinds, the JoinSet is dropped
IterPanic(T) ==
    LET sub == locked_app_for_trigger(app, T)
        a == args_for_trigger(rawArgs, T)
    IN /\ pc = "loop"
       /\ T \in pending
       /\ sub.st = "panic" \/ a.st = "panic"
       /\ pc' = "panic"
       /\ pending' = pending \ {T}
       /\ subapp' = [subapp EXCEPT ![T] = sub]
       /\ IF sub.st = "panic"
          THEN UNCHANGED <<grupps, args>>
          ELSE /\ grupps' = gruppified_args(rawArgs)
               /\ args' = [args EXCEPT ![T] = a]
       /\ task' = Aborted(task)
       /\ child' = Dropped(task, child)
       /\ UNCHANGED <<app, rawArgs, files, ctrlc, endedBy, writeFailed, atEnd>>

\* one iteration in which write_locked_app returns Err (51): serialization
\* or the write fails (nothing written), or the path has no file URL (the
\* file is written); run returns the error and the JoinSet is dropped
IterWriteFail(T) ==
    LET sub == locked_app_for_trigger(app, T)
        a == args_for_trigger(rawArgs, T)
    IN /\ pc = "loop"
       /\ T \in pending
       /\ sub.st = "ok" /\ a.st = "ok"
       /\ pc' = "err"
       /\ pending' = pending \ {T}
       /\ subapp' = [subapp EXCEPT ![T] = sub]
       /\ grupps' = gruppified_args(rawArgs)
       /\ args' = [args EXCEPT ![T] = a]
       /\ \E wrote \in BOOLEAN :
            files' = IF wrote
                     THEN [files EXCEPT ![locked_path(T)] =
                               [st |-> "written", val |-> sub.val]]
                     ELSE files
       /\ writeFailed' = writeFailed \cup {T}
       /\ task' = Aborted(task)
       /\ child' = Dropped(task, child)
       /\ UNCHANGED <<app, rawArgs, ctrlc, endedBy, atEnd>>

\* one iteration that gets as far as triggers.spawn (49-65)
IterSpawn(T) ==
    LET sub == locked_app_for_trigger(app, T)
        a == args_for_trigger(rawArgs, T)
    IN /\ pc = "loop"
       /\ T \in pending
       /\ sub.st = "ok" /\ a.st = "ok"
       /\ pending' = pending \ {T}
       /\ subapp' = [subapp EXCEPT ![T] = sub]
       /\ grupps' = gruppified_args(rawArgs)
       /\ args' = [args EXCEPT ![T] = a]
       /\ files' = [files EXCEPT ![locked_path(T)] =
                        [st |-> "written", val |-> sub.val]]
       /\ task' = [task EXCEPT ![T] =
                       [st |-> "spawned", sub |-> trigger_subcommand(T),
                        args |-> a.val, env |-> locked_url(T)]]
       /\ UNCHANGED <<app, rawArgs, pc, child, ctrlc, endedBy, writeFailed, atEnd>>

\* the launch task runs: Command::spawn succeeds and the task waits (58-64)
TaskLaunch(T) ==
    /\ task[T].st = "spawned"
    /\ task' = [task EXCEPT ![T].st = "waiting"]
    /\ child' = [child EXCEPT ![T] =
                    [st |-> "running", status |-> 0, cmd |-> task[T].sub,
                     args |-> task[T].args, env |-> task[T].env,
                     launches |-> child[T].launches + 1, killed |-> FALSE]]
    /\ UNCHANGED <<app, rawArgs, pc, pending, grupps, args, subapp, files,
                   ctrlc, endedBy, writeFailed, atEnd>>

\* the launch task runs: Command::spawn fails and unwrap panics (62-63)
TaskSpawnFail(T) ==
    /\ task[T].st = "spawned"
    /\ task' = [task EXCEPT ![T].st = "panicked"]
    /\ UNCHANGED <<app, rawArgs, pc, pending, grupps, args, subapp, files,
                   child, ctrlc, endedBy, writeFailed, atEnd>>

\* a child process terminates with some status; child.wait() of its task,
\* if still waiting, completes (64)
ChildExit(T, status) ==
    /\ child[T].st = "running"
    /\ child' = [child EXCEPT ![T].st = "exited", ![T].status = status]
    /\ task' = IF task[T].st = "waiting"
               THEN [task EXCEPT ![T].st = "done"] ELSE task
    /\ UNCHANGED <<app, rawArgs, pc, pending, grupps, args, subapp, files,
                   ctrlc, endedBy, writeFailed, atEnd>>

\* the interrupt signal arrives and the ctrl-c task completes (24-26); the
\* listener is taken to register (ctrl_c() returns Ok), so its unwrap holds
CtrlC ==
    /\ ~Final
    /\ ctrlc = "waiting"
    /\ ctrlc' = "fired"
    /\ UNCHANGED <<app, rawArgs, pc, pending, grupps, args, subapp, files,
                   task, child, endedBy, writeFailed, atEnd>>

AtSelect == pc = "loop" /\ pending = {}

\* JoinSet::join_next is ready when the set is empty (None) or holds a
\* finished task
JoinReady ==
    \/ \A T \in TypePool : task[T].st = "none"
    \/ \E T \in TypePool : task[T].st \in {"done", "panicked"}

EndWait_by_status(by) ==
    /\ pc' = IF \E T \in TypePool : child[T].st = "exited" /\ child[T].status # 0
             THEN "err" ELSE "ok"
    /\ endedBy' = by
    /\ atEnd' = Running
    /\ task' = Aborted(task)
    /\ child' = Dropped(task, child)
    /\ UNCHANGED <<app, rawArgs, pending, grupps, args, subapp, files, ctrlc,
                   writeFailed>>

EndWait(by) ==
    /\ pc' = "ok"
    /\ endedBy' = by
    /\ atEnd' = Running
    /\ task' = Aborted(task)
    /\ child' = Dropped(task, child)
    /\ UNCHANGED <<app, rawArgs, pending, grupps, args, subapp, files, ctrlc,
                   writeFailed>>

\* select!: the ctrl-c branch (69-71), then Ok(()) (77)
SelectCtrlc ==
    /\ AtSelect
    /\ ctrlc = "fired"
    /\ EndWait("ctrlc")

\* select!: the join_next branch (72-74), then Ok(()) (77)
SelectJoin ==
    /\ AtSelect
    /\ JoinReady
    /\ EndWait("join")

Next ==
    \/ LoadFail
    \/ LoadOk
    \/ \E T \in TypePool : IterPanic(T)
    \/ \E T \in TypePool : IterWriteFail(T)
    \/ \E T \in TypePool : IterSpawn(T)
    \/ \E T \in TypePool : TaskLaunch(T)
    \/ \E T \in TypePool : TaskSpawnFail(T)
    \/ \E T \in TypePool, status \in {0, 1} : ChildExit(T, status)
    \/ CtrlC
    \/ SelectCtrlc
    \/ SelectJoin

dE2E == MkApp(<< <<Str(tHttp), Str(c1)>>, <<Str(tRedis), Str(c2)>> >>, <<c1, c2>>, mE2E)
dDup == MkApp(<< <<Str(tA), Str(c1)>>, <<Str(tA), Str(c2)>>, <<Str(tAB), Str(c1)>> >>,
              <<c1, c2>>, mA)
dEmpty == MkApp(<<>>, <<c1>>, mE2E)
dBadComp == MkApp(<< <<Str(tHttp), Str(c1)>>, <<Str(tA), Absent>> >>, <<c1, c2>>, mE2E)
dNoType == MkApp(<< <<Absent, Str(c1)>>, <<Num, Str(c2)>> >>, <<c1, c2>>, mE2E)
dNoMeta == MkApp(<< <<Str(tHttp), Str(c1)>> >>, <<c1>>, Absent)

dThree == MkApp(<< <<Str(tHttp), Str(c1)>>, <<Str(tA), Str(c2)>>, <<Str(tAB), Str(c2)>> >>,
                <<c1, c2>>, mA)

RunApps == {dE2E, dDup, dThree, dEmpty, dBadComp, dNoType, dNoMeta}
RunArgs == {<<>>,
            <<kHttpBase, kApi, kRedisAddr, kY, kOther>>,
            <<kAX, kV, kABX>>,
            <<kV, kAX>>}

Init == \E a \in RunApps, as \in RunArgs : InitWith(a, as)

Spec == Init /\ [][Next]_vars

-----------------------------------------------------------------------------
(* The router applied to every bounded token list.                         *)

RouteTypes == {tA, tAB, tAx}

InitRoute == \E as \in SeqsUpTo(TokenPool, MaxArgs) : InitWith(dE2E, as)

RouteCall(T) ==
    /\ args[T].st = "none"
    /\ grupps' = gruppified_args(rawArgs)
    /\ args' = [args EXCEPT ![T] = args_for_trigger(rawArgs, T)]
    /\ UNCHANGED <<app, rawArgs, pc, pending, subapp, files, task, child,
                   ctrlc, endedBy, writeFailed, atEnd>>

NextRoute == \E T \in RouteTypes : RouteCall(T)

SpecRoute == InitRoute /\ [][NextRoute]_vars

-----------------------------------------------------------------------------
(* The partitioner applied to every bounded descriptor.                    *)

PartTypes == {tA, tAB}
TrigOpts == {Absent, Num, Str(tA), Str(tAB)} \X {Absent, Str(c1), Str(c2)}
MetaPool == {Absent, Str(<<"m">>), mA, mE2E}

InitPart ==
    \E ts \in SeqsUpTo(TrigOpts, MaxTriggers), ids \in CompLists, tr \in MetaPool :
        InitWith(MkApp(ts, ids, tr), <<>>)

PartitionCall(T) ==
    /\ subapp[T].st = "none"
    /\ subapp' = [subapp EXCEPT ![T] = locked_app_for_trigger(app, T)]
    /\ UNCHANGED <<app, rawArgs, pc, pending, grupps, args, files, task, child,
                   ctrlc, endedBy, writeFailed, atEnd>>

NextPart == \E T \in PartTypes : PartitionCall(T)

SpecPart == InitPart /\ [][NextPart]_vars

-----------------------------------------------------------------------------
(* Vocabulary of the properties.                                           *)

\* the position of i among the members of S, counted from 1
Rank(S, i) == Cardinality({j \in S : j <= i})

HasPrefix(s, p) == Len(s) >= Len(p) /\ \A k \in 1..Len(p) : s[k] = p[k]

HyphenLed(tok) == Len(tok) > 0 /\ tok[1] = "-"

\* the position of the token that leads the group token i belongs to
LeaderOf(toks, i) ==
    CHOOSE j \in 1..i :
        /\ HyphenLed(toks[j])
        /\ \A k \in (j + 1)..i : ~HyphenLed(toks[k])

RoutePrefix(T) == <<"-", "-">> \o T \o <<"-">>

\* the positions of the tokens of the groups routed to T
SelectedAt(toks, T) ==
    {i \in 1..Len(toks) : HasPrefix(toks[LeaderOf(toks, i)], RoutePrefix(T))}

WellFormedArgs == Len(rawArgs) > 0 /\ HyphenLed(rawArgs[1])

ValidUtf8Args ==
    \A i \in 1..Len(rawArgs) : \A k \in 1..Len(rawArgs[i]) : rawArgs[i][k] # BadByte

\* the triggers of the descriptor whose trigger_config.type is the string T
TypedAt(a, T) ==
    {i \in 1..Len(a.triggers) :
        /\ "type" \in DOMAIN a.triggers[i].trigger_config
        /\ a.triggers[i].trigger_config["type"] = Str(T)}

Discovered(a) == {T \in TypePool : TypedAt(a, T) # {}}

\* the component ids the triggers of type T refer to
RefsOf(a, T) ==
    {a.triggers[i].trigger_config["component"].v :
        i \in {j \in TypedAt(a, T) :
                  /\ "component" \in DOMAIN a.triggers[j].trigger_config
                  /\ a.triggers[j].trigger_config["component"].kind = "str"}}

-----------------------------------------------------------------------------
(* C1..C4: end of the wait and failures of the run.                        *)

\* C1: when the wait has ended, every child process that was running at that
\* moment has been sent a termination request.
C1_TerminationRequested ==
    pc = "ok" => \A T \in atEnd : child[T].killed

\* C2: run does not return from the wait, with at least one child launched,
\* before the cancellation signal or the termination of some child.
C2_WaitEndsOnSignalOrExit ==
    (pc = "ok" /\ \E T \in TypePool : child[T].launches > 0)
        => (ctrlc = "fired" \/ \E T \in TypePool : child[T].st = "exited")

\* C3: when the write of a manifest has failed, run has ended with an error
\* and no child process has been launched for any type.
C3_NoPartialLaunch ==
    writeFailed # {}
        => (pc = "err" /\ \A T \in TypePool : child[T].launches = 0)

\* C4: when the launch of an executor has failed, run never returns success.
C4_SpawnFailureIsError ==
    (\E T \in TypePool : task[T].st = "panicked") => pc # "ok"

-----------------------------------------------------------------------------
(* C5: one launch per trigger type, with that type's manifest and args.     *)

\* the path a file URL addresses
PathOfUrl(url) == SubSeq(url, 9, Len(url))

-----------------------------------------------------------------------------
(* C6..C8: the argument router.                                            *)

\* C6: for a token list led by a hyphen-prefixed token, route(tokens, T) is
\* made of the tokens of the groups whose leading token starts with
\* "--" + T + "-", in their original order: one output token per token of a
\* selected group, the non-leading ones unchanged, the leading one still an
\* option token; nothing at all when no group is selected.
C6_RouteSelectsGroups ==
    WellFormedArgs =>
        \A T \in TypePool :
            args[T].st # "none" =>
                LET sel == SelectedAt(rawArgs, T)
                    out == args[T].val
                IN /\ args[T].st = "ok"
                   /\ Len(out) = Cardinality(sel)
                   /\ \A i \in sel :
                        IF HyphenLed(rawArgs[i])
                        THEN HasPrefix(out[Rank(sel, i)], <<"-", "-">>)
                        ELSE out[Rank(sel, i)] = rawArgs[i]

\* a list with a selected group of two tokens and an unselected group
C6_Witness ==
    /\ WellFormedArgs
    /\ args[tA].st = "ok"
    /\ Len(args[tA].val) = 2
    /\ Len(rawArgs) = 3
    /\ args[tA].val[2] = rawArgs[2]
    /\ ~HyphenLed(rawArgs[2])
    /\ 3 \notin SelectedAt(rawArgs, tA)

\* C7: (for tokens that are valid UTF-8) the leading token of a selected
\* group comes out as "--" followed by
\* the rest of the original token after its leading prefix, and every other
\* token of the group comes out unchanged.
C7_RewriteLeadingPrefixOnly ==
    (WellFormedArgs /\ ValidUtf8Args) =>
        \A T \in TypePool :
            args[T].st = "ok" =>
                LET sel == SelectedAt(rawArgs, T)
                    out == args[T].val
                IN \A i \in sel :
                      Rank(sel, i) <= Len(out) =>
                        out[Rank(sel, i)] =
                            IF HyphenLed(rawArgs[i])
                            THEN <<"-", "-">> \o SubSeq(rawArgs[i],
                                     Len(RoutePrefix(T)) + 1, Len(rawArgs[i]))
                            ELSE rawArgs[i]

\* C8: for a token list led by a hyphen-prefixed token the grouping does not
\* panic, its groups flattened are the list, every group is non-empty, its
\* first token is hyphen-prefixed and none of its other tokens is.
C8_GroupingComplete ==
    (WellFormedArgs /\ \E T \in TypePool : args[T].st # "none") =>
        /\ ~grupps.panic
        /\ Flatten(grupps.val) = rawArgs
        /\ \A g \in 1..Len(grupps.val) :
            /\ Len(grupps.val[g]) >= 1
            /\ HyphenLed(grupps.val[g][1])
            /\ \A k \in 2..Len(grupps.val[g]) : ~HyphenLed(grupps.val[g][k])

\* a grouping of three tokens into two groups, one led by a single hyphen
C8_Witness ==
    /\ WellFormedArgs
    /\ \E T \in TypePool : args[T].st # "none"
    /\ Len(rawArgs) = 3
    /\ Len(grupps.val) = 2
    /\ \E g \in 1..2 : grupps.val[g][1] = kNeg
    /\ \E g \in 1..2 : Len(grupps.val[g]) = 2

-----------------------------------------------------------------------------
(* C9, C10: triggers and components of a partition.                        *)

\* C9: the triggers of partition(d, T) are the triggers of d whose
\* trigger_config.type is T, in their order, each with trigger_type T, no
\* type key and its other trigger_config entries and its id as they were;
\* partitions for distinct types share no trigger_type value.
C9_PartitionTriggers ==
    /\ \A T \in TypePool :
        subapp[T].st = "ok" =>
            LET idx == TypedAt(app, T)
                out == subapp[T].val.triggers
            IN /\ Len(out) = Cardinality(idx)
               /\ \A i \in idx :
                    LET r == out[Rank(idx, i)]
                        o == app.triggers[i]
                    IN /\ r.trigger_type = T
                       /\ r.id = o.id
                       /\ DOMAIN r.trigger_config = DOMAIN o.trigger_config \ {"type"}
                       /\ \A k \in DOMAIN r.trigger_config :
                            r.trigger_config[k] = o.trigger_config[k]
    /\ \A A \in TypePool, B \in TypePool :
        (A # B /\ subapp[A].st = "ok" /\ subapp[B].st = "ok") =>
            {subapp[A].val.triggers[i].trigger_type :
                i \in 1..Len(subapp[A].val.triggers)}
            \cap {subapp[B].val.triggers[i].trigger_type :
                i \in 1..Len(subapp[B].val.triggers)} = {}

\* both types partitioned, each keeping a trigger, one trigger dropped
C9_Witness ==
    /\ subapp[tA].st = "ok" /\ subapp[tAB].st = "ok"
    /\ Len(app.triggers) = 2
    /\ Len(subapp[tA].val.triggers) = 1
    /\ Len(subapp[tAB].val.triggers) = 1
    /\ subapp[tA].val.triggers[1].id = 2

\* C10: the components of partition(d, T) are the components of d whose id
\* is the component of a trigger of type T, in their order; and when every
\* trigger of d names a component of d, every trigger of the partition names
\* a component of the partition.
C10_PartitionComponents ==
    \A T \in TypePool :
        subapp[T].st = "ok" =>
            LET idx == {i \in 1..Len(app.components) :
                            app.components[i].id \in RefsOf(app, T)}
                out == subapp[T].val.components
                ids == {app.components[i].id : i \in 1..Len(app.components)}
            IN /\ Len(out) = Cardinality(idx)
               /\ \A i \in idx : out[Rank(idx, i)] = app.components[i]
               /\ (\A i \in 1..Len(app.triggers) :
                      /\ has_str(app.triggers[i].trigger_config, "component")
                      /\ app.triggers[i].trigger_config["component"].v \in ids)
                  => \A i \in 1..Len(subapp[T].val.triggers) :
                        subapp[T].val.triggers[i].trigger_config["component"].v
                            \in {out[j].id : j \in 1..Len(out)}

\* a component used only by the other type is dropped
C10_Witness ==
    /\ subapp[tA].st = "ok"
    /\ Len(app.components) = 2
    /\ Len(subapp[tA].val.components) = 1
    /\ Len(subapp[tA].val.triggers) = 1
    /\ TypedAt(app, tAB) # {}
    /\ \E i \in 1..2 : app.components[i].id \in RefsOf(app, tAB) \ RefsOf(app, tA)

-----------------------------------------------------------------------------
(* The partitioner applied to every bounded metadata.trigger map.          *)

MaxMetaKeys == 2

kmHttpBase == <<"h", "t", "t", "p", "-", "b", "a", "s", "e">>
kmRedisAddr == <<"r", "e", "d", "i", "s", "-", "a", "d", "d", "r">>
kmAX == <<"a", "-", "x">>
kmABY == <<"a", "-", "b", "-", "y">>
kmAXAY == <<"a", "-", "x", "-", "a", "-", "y">>
kmAType == <<"a", "-", "t", "y", "p", "e">>

MetaKeyPool == {kmHttpBase, kmRedisAddr, kmAX, kmABY, kmAXAY, kmAType}

\* maps of up to MaxMetaKeys distinct keys, in every iteration order; the
\* value under a key is the key's own text, so that values tell keys apart
MetaMaps ==
    {[i \in 1..Len(ks) |-> [k |-> ks[i], v |-> Str(ks[i])]] :
        ks \in {s \in SeqsUpTo(MetaKeyPool, MaxMetaKeys) :
                   \A i \in 1..Len(s), j \in 1..Len(s) : i # j => s[i] # s[j]}}

MetaTypes == {tA, tAB, tHttp}

InitMeta ==
    \E tr \in {Absent, Str(<<"m">>)} \cup {Obj(m) : m \in MetaMaps} :
        InitWith(MkApp(<< <<Str(tHttp), Str(c1)>>, <<Str(tA), Str(c2)>>,
                          <<Str(tAB), Str(c2)>> >>, <<c1, c2>>, tr), <<>>)

NextMeta == \E T \in MetaTypes : PartitionCall(T)

SpecMeta == InitMeta /\ [][NextMeta]_vars

kType == <<"t", "y", "p", "e">>

\* the key k without its leading T + "-"
StripLeading(k, T) == SubSeq(k, Len(T) + 2, Len(k))

\* the entries of d's metadata.trigger whose key starts with T + "-"
OwnEntries(a, T) ==
    {i \in 1..Len(a.metadata["trigger"].entries) :
        HasPrefix(a.metadata["trigger"].entries[i].k, T \o <<"-">>)}

\* C11: the metadata.trigger of partition(d, T) has exactly one entry per key
\* of the original that starts with T + "-", under that key with the leading
\* prefix stripped and with the same value, and the entry type = T (which
\* stands also where a stripped key is itself "type").
C11_MetadataDemultiplexed ==
    \A T \in TypePool :
        subapp[T].st = "ok" =>
            LET src == app.metadata["trigger"].entries
                out == subapp[T].val.metadata["trigger"].entries
                own == OwnEntries(app, T)
            IN /\ subapp[T].val.metadata["trigger"].kind = "obj"
               /\ {out[i].k : i \in 1..Len(out)}
                    = {StripLeading(src[i].k, T) : i \in own} \cup {kType}
               /\ \A i \in 1..Len(out) :
                    IF out[i].k = kType THEN out[i].v = Str(T)
                    ELSE \E j \in own : /\ StripLeading(src[j].k, T) = out[i].k
                                        /\ src[j].v = out[i].v

\* C15: every metadata entry of partition(d, T) other than trigger is the
\* source's entry under the same key; a call leaves the source descriptor
\* and the partitions computed before it as they were.
C15_PartitionFrame ==
    /\ [](\A T \in TypePool :
            subapp[T].st = "ok" =>
                /\ DOMAIN subapp[T].val.metadata = DOMAIN app.metadata
                /\ \A k \in DOMAIN app.metadata \ {"trigger"} :
                      subapp[T].val.metadata[k] = app.metadata[k])
    /\ [][/\ app' = app
          /\ \A T \in TypePool : subapp[T].st # "none" => subapp'[T] = subapp[T]]_vars

\* all three types partitioned from a map with an entry of another type
C15_Witness ==
    /\ \A T \in MetaTypes : subapp[T].st = "ok"
    /\ Len(app.metadata["trigger"].entries) = 2
    /\ Len(subapp[tA].val.metadata["trigger"].entries) = 2
    /\ Len(subapp[tHttp].val.metadata["trigger"].entries) = 2
    /\ subapp[tA].val.metadata["name"] = Str(<<"n">>)

-----------------------------------------------------------------------------
(* C12..C14, C16..C18.                                                     *)

\* a trigger without the type key or without the component key, or no
\* metadata.trigger entry
Malformed(a) ==
    \/ \E i \in 1..Len(a.triggers) :
          \/ "type" \notin DOMAIN a.triggers[i].trigger_config
          \/ "component" \notin DOMAIN a.triggers[i].trigger_config
    \/ "trigger" \notin DOMAIN a.metadata

\* C12: partition of a descriptor with a trigger that lacks type or
\* component, or without metadata.trigger, never returns a scoped descriptor.
C12_MalformedIsFatal ==
    \A T \in TypePool :
        (Malformed(app) /\ subapp[T].st # "none") => subapp[T].st = "panic"

\* C13: the command of the child launched for T is "trigger", T for the
\* built-in types http and redis and "trigger-" + T for any other type,
\* followed by exactly route(rawArgs, T).
C13_ExecutorResolution ==
    \A T \in TypePool :
        child[T].launches > 0 =>
            child[T].cmd \o child[T].args =
                (IF T \in {tHttp, tRedis}
                 THEN << <<"t", "r", "i", "g", "g", "e", "r">>, T >>
                 ELSE << <<"t", "r", "i", "g", "g", "e", "r", "-">> \o T >>)
                \o args_for_trigger(rawArgs, T).val

\* a built-in and a dynamic executor launched, the latter with arguments
C13_Witness ==
    /\ child[tHttp].launches = 1
    /\ child[tA].launches = 1
    /\ Len(child[tA].args) = 3
    /\ Len(child[tHttp].cmd) = 2

\* C14: while the partition or the write of some type is still to come, no
\* launch task has run and no child has been launched.
C14_PartitionBeforeConcurrency ==
    (pc = "loop" /\ pending # {}) =>
        \A T \in TypePool :
            task[T].st \in {"none", "spawned"} /\ child[T].launches = 0

\* C16: once the wait has ended, run returns Ok whatever ended it: the
\* signal, a child that exited with status zero or one that did not.
C16_OutcomeIgnoresStatus ==
    endedBy # "none" => pc = "ok"

\* the wait ended by the abnormal exit of one child while another ran on
C16_Witness ==
    /\ endedBy = "join"
    /\ pc = "ok"
    /\ \E T \in TypePool : child[T].st = "exited" /\ child[T].status = 1
    /\ atEnd # {}

\* "--" + A + "-" is a prefix of "--" + B + "-"
PrefixExtends(A, B) == HasPrefix(RoutePrefix(B), RoutePrefix(A))

\* C17 as stated: no group is selected for two distinct types.
C17_RoutingDisjoint ==
    \A A \in TypePool, B \in TypePool :
        (A # B /\ args[A].st = "ok" /\ args[B].st = "ok") =>
            selected_grupps(rawArgs, A) \cap selected_grupps(rawArgs, B) = {}

\* C17 as amended: no group is selected for two distinct types unless the
\* option prefix of one is a prefix of the other's, and then every group
\* selected for the longer type is selected for the shorter one too.
C17_RoutingDisjointUnlessExtended ==
    \A A \in TypePool, B \in TypePool :
        (A # B /\ args[A].st = "ok" /\ args[B].st = "ok") =>
            /\ (~PrefixExtends(A, B) /\ ~PrefixExtends(B, A)) =>
                  selected_grupps(rawArgs, A) \cap selected_grupps(rawArgs, B) = {}
            /\ PrefixExtends(A, B) =>
                  selected_grupps(rawArgs, B) \subseteq selected_grupps(rawArgs, A)

\* groups routed to a, to ax and to both a and a-b in one token list
C17_Witness ==
    /\ \A T \in RouteTypes : args[T].st = "ok"
    /\ Cardinality(selected_grupps(rawArgs, tA)) = 2
    /\ Cardinality(selected_grupps(rawArgs, tAx)) = 1
    /\ Cardinality(selected_grupps(rawArgs, tAB)) = 1

\* C18: with no trigger type in the descriptor, no child is launched, no
\* manifest is written, and run does not return Ok before the signal.
C18_NoTypesWaitsForSignal ==
    Discovered(app) = {} =>
        /\ \A T \in TypePool : child[T].launches = 0 /\ task[T].st = "none"
        /\ \A p \in Paths : files[p].st = "none"
        /\ pc = "ok" => ctrlc = "fired"

====
